---- MODULE Spec2Model ----
(***************************************************************************)
(* crawl-crawl (src/index.mjs): an HTTP server whose /scrape route crawls  *)
(* a paginated listing site on one shared browser page, fetches every      *)
(* item's detail page, sends the harvested HTML in batches to an           *)
(* extraction service and merges the answers; every request first passes   *)
(* a fixed-window rate limiter keyed by the client address.                *)
(*                                                                         *)
(* One request slot holds everything one invocation of the request         *)
(* handler owns: the request, the local variables of crawlAndExtract, the  *)
(* position at which it is suspended (pc) and the response.  The steps of  *)
(* an action are the statements the single-threaded event loop runs        *)
(* between two suspension points (await).                                  *)
(***************************************************************************)
EXTENDS Integers, Sequences, FiniteSets, TLC

(***************************************************************************)
(* Bounds of the model.                                                    *)
(***************************************************************************)
\* largest from_page / to_page a checked query carries
MaxPage == 3
\* collaborator faults (failed navigation or query, rejected or malformed
\* extraction answer) the environment injects into one crawl
MaxFaults == 2
\* records one well-formed extraction answer carries
MaxRecords == 1
\* the clock stops advancing at MaxTime (ms)
MaxTime == 130000
\* the clock advances by at most TickMs (ms) in one step
TickMs == 30000

(***************************************************************************)
(* Program constants.                                                      *)
(***************************************************************************)
\* index.mjs:189  const itemsPerBatch = 5
itemsPerBatch == 5
\* index.mjs:341  const windowMs = 60 * 1000
windowMs == 60 * 1000
\* index.mjs:342  const maxRequests = 5
maxRequests == 5

\* the request slots: handler invocations that can be in flight together
Reqs == {"r1", "r2"}
\* client addresses (req.socket.remoteAddress)
IPs == {"ip1", "ip2"}

(***************************************************************************)
(* URLs.  A URL is its hostname and its query string, the query string a   *)
(* sequence of <<name, value>> pairs in serialisation order: two URLs are  *)
(* the same string iff they are the same record.                           *)
(***************************************************************************)
\* index.mjs:323-324  TARGET_BASE_URL (its host; its fixed parameters are
\* shortened to _ipg=60)
TARGET_BASE_URL == [host |-> "www.ebay.com", q |-> << <<"_ipg", "60">> >>]

\* A JavaScript number x is kept as the integer 2x, so that 1.5 is a value
\* of the model: Num(i) is the whole number i.
Num(i) == 2 * i

\* `${fromPage}`: a number printed in a template string
NumberToString(n) ==
    CASE n = Num(1) -> "1"
      [] n = Num(2) -> "2"
      [] n = Num(3) -> "3"
      [] n = Num(4) -> "4"
      [] n = Num(5) -> "5"
      [] n = Num(1) + 1 -> "1.5"
      [] n = Num(-1) -> "-1"
      [] OTHER -> "NaN"

\* index.mjs:178  `${startUrl}&_nkw=nike&_pgn=${fromPage}`
StartUrl(startUrl, fromPage) ==
    [startUrl EXCEPT !.q = @ \o << <<"_nkw", "nike">>,
                                   <<"_pgn", NumberToString(fromPage)>> >>]

\* URLSearchParams.get: the first value of the name, null when absent
ParamsGet(q, name) ==
    IF \E i \in 1..Len(q) : q[i][1] = name
    THEN q[CHOOSE i \in 1..Len(q) :
               /\ q[i][1] = name
               /\ \A j \in 1..(i - 1) : q[j][1] # name][2]
    ELSE "null"

\* a delete that removes nothing
ParamsKeep(q, name) == q

\* URLSearchParams.delete: every pair of the name goes
ParamsDelete(q, name) == SelectSeq(q, LAMBDA p : p[1] # name)

\* URLSearchParams.append (a null value is appended as the string "null")
ParamsAppend(q, name, value) == Append(q, <<name, value>>)

\* index.mjs:99-107  move _pgn to the end of the query string
NormalizeLink(link) ==
    [link EXCEPT !.q = ParamsAppend(ParamsDelete(link.q, "_pgn"), "_pgn",
                                    ParamsGet(link.q, "_pgn"))]

\* getPaginationLinks without the filter on the hostname
getPaginationLinksAnyHost(links, url) ==
    [i \in 1..Len(links) |-> NormalizeLink(links[i])]

\* index.mjs:94-107  getPaginationLinks, after the page query returned `links`
getPaginationLinks(links, url) ==
    LET kept == SelectSeq(links, LAMBDA l : l.host = url.host)
    IN  [i \in 1..Len(kept) |-> NormalizeLink(kept[i])]

(***************************************************************************)
(* The frontier loop.                                                      *)
(***************************************************************************)
\* index.mjs:192  the loop condition
LoopGuard(visited, queue, toPage) ==
    Len(queue) > 0 /\ Num(Cardinality(visited)) < toPage

\* a loop without the check of the visited set
SkipNever(visited, url) == FALSE

\* index.mjs:194  if (visitedUrls.has(currentUrl)) continue
SkipVisited(visited, url) == url \in visited

\* a loop that forgets to mark the URL
MarkNothing(visited, url) == visited

\* index.mjs:197  visitedUrls.add(currentUrl)
MarkVisited(visited, url) == visited \cup {url}

\* deq with one more shift() of url counted, and one more visit of it when
\* it is then marked visited and navigated to
Counted(deq, url, visit) ==
    LET old == IF url \in DOMAIN deq THEN deq[url]
               ELSE [shifts |-> 0, visits |-> 0, fetched |-> 0]
    IN  [u \in DOMAIN deq \cup {url} |->
           IF u = url
           THEN [shifts |-> old.shifts + 1,
                 visits |-> old.visits + (IF visit THEN 1 ELSE 0),
                 fetched |-> old.fetched]
           ELSE deq[u]]

\* deq with one more successful page.goto of url counted
Fetched(deq, url) == [deq EXCEPT ![url].fetched = @ + 1]

\* index.mjs:192-197  run the loop from its head to the next page.goto (go)
\* or to its exit: shift, skip what is visited, mark visited.  deq counts
\* per URL the shift() calls that returned it and the visits of it.
RECURSIVE FrontierNext(_, _, _, _)
FrontierNext(visited, queue, deq, toPage) ==
    IF ~LoopGuard(visited, queue, toPage)
    THEN [go |-> FALSE, visited |-> visited, queue |-> queue, deq |-> deq,
          url |-> TARGET_BASE_URL]
    ELSE LET cur == Head(queue)
         IN  IF SkipVisited(visited, cur)
             THEN FrontierNext(visited, Tail(queue), Counted(deq, cur, FALSE),
                               toPage)
             ELSE [go |-> TRUE, visited |-> MarkVisited(visited, cur),
                   queue |-> Tail(queue), deq |-> Counted(deq, cur, TRUE),
                   url |-> cur]

\* a push without the check of the visited set
PushAll(visited, queue, links) == queue \o links

\* index.mjs:208-212  push every pagination link that is not visited
PushLinks(visited, queue, links) ==
    queue \o SelectSeq(links, LAMBDA l : l \notin visited)

(***************************************************************************)
(* Item stubs and batches.                                                 *)
(***************************************************************************)
\* index.mjs:122-140  getProductItems: the n items of the rendered document
\* doc, in document order, each with an empty productDetailHtml (a string
\* or an array of fragments, modelled as the sequence of its fragments); a
\* document that is no listing has none.  fetch records what became of the
\* stub's detail fetch ("none", "failed", "done").
getProductItems(doc, n) ==
    IF doc.kind = "listing"
    THEN [k \in 1..n |-> [productId |-> <<doc.url, k>>,
                          productDetailHtml |-> << >>,
                          fetch |-> "none"]]
    ELSE << >>

Min(a, b) == IF a < b THEN a ELSE b

\* slices that stop one item early
SliceShort(items) ==
    LET n == Len(items)
        c == (n + itemsPerBatch - 1) \div itemsPerBatch
    IN  [k \in 1..c |->
           SubSeq(items, (k - 1) * itemsPerBatch + 1,
                  Min(k * itemsPerBatch - 1, n))]

\* the items of one listing page pushed as one batch
SliceWhole(items) == IF items = << >> THEN << >> ELSE << items >>

\* index.mjs:218-220  slice the items of one listing page into batches
SliceBatches(items) ==
    LET n == Len(items)
        c == (n + itemsPerBatch - 1) \div itemsPerBatch
    IN  [k \in 1..c |->
           SubSeq(items, (k - 1) * itemsPerBatch + 1,
                  Min(k * itemsPerBatch, n))]

\* index.mjs:252  getProductDescription on the rendered document doc: the
\* detail regions of a detail page; a listing page has none
getProductDescription(doc) ==
    IF doc.kind = "detail" THEN << doc.id >> ELSE << >>

\* index.mjs:274-291  the composite document of one batch: per stub its id
\* (the wrapper's class), its listing snippet and its detail fragment
CompositeDocument(batch) ==
    [i \in 1..Len(batch) |->
       [productId |-> batch[i].productId,
        productItemHtml |-> batch[i].productId,
        productDetailHtml |-> batch[i].productDetailHtml]]

(***************************************************************************)
(* Extraction answers.  A settled extractProduct promise is rejected, or   *)
(* fulfilled with whatever JSON.parse made of the answer.                  *)
(***************************************************************************)
\* the records an extraction call for batch k answers with
Records(k, n) == [j \in 1..n |-> <<k, j>>]

\* { products: [...] }
WellFormed(k, n) ==
    [json |-> "object", hasProducts |-> TRUE, isArray |-> TRUE,
     products |-> Records(k, n)]
\* { items: ... }: no products field
MissingField == [json |-> "object", hasProducts |-> FALSE, isArray |-> FALSE,
                 products |-> << >>]
\* { products: "none" }
NonArrayField == [json |-> "object", hasProducts |-> TRUE, isArray |-> FALSE,
                  products |-> << >>]
\* null
JsonNull == [json |-> "null", hasProducts |-> FALSE, isArray |-> FALSE,
             products |-> << >>]
\* 42
JsonNumber == [json |-> "number", hasProducts |-> FALSE, isArray |-> FALSE,
               products |-> << >>]
Malformed == {MissingField, NonArrayField, JsonNull, JsonNumber}

Rejected == [status |-> "rejected", value |-> JsonNumber]
Fulfilled(v) == [status |-> "fulfilled", value |-> v]
Pending == [status |-> "pending", value |-> JsonNumber]

\* JavaScript's typeof: null is an "object"
TypeOf(v) == IF v.json \in {"object", "null"} THEN "object" ELSE v.json

\* index.mjs:306  "products" in value: a TypeError when value is null
InThrows(v) == v.json = "null"

\* index.mjs:299  the order in which the merge loop reads the results: the
\* order of the array handed to Promise.allSettled
MergeOrder(results) == [k \in 1..Len(results) |-> k]

\* index.mjs:300-310  what one result adds to allProductData
Contribution(result) ==
    IF result.status = "rejected" THEN << >>
    ELSE IF /\ TypeOf(result.value) = "object"
            /\ result.value.hasProducts
            /\ result.value.isArray
         THEN result.value.products
         ELSE << >>

\* the records are pushed as each promise settles
DataPushedOnSettle(data, result) == data \o Contribution(result)

\* index.mjs:294-298  allProductData when a promise settles: the promises
\* are only collected, nothing is pushed before Promise.allSettled resolves
DataOnSettle(data, result) == data

\* the merge after a join that rejects when one of the promises does
\* (Promise.all)
RECURSIVE MergeLoopAll(_, _, _, _)
MergeLoopAll(results, order, i, data) ==
    IF i > Len(order) THEN [threw |-> FALSE, data |-> data]
    ELSE LET result == results[order[i]]
         IN  IF \/ result.status = "rejected"
                \/ /\ TypeOf(result.value) = "object"
                   /\ InThrows(result.value)
             THEN [threw |-> TRUE, data |-> data]
             ELSE MergeLoopAll(results, order, i + 1,
                               data \o Contribution(result))

\* index.mjs:299-311  the merge loop over order from position i on: the
\* data pushed so far, and whether the loop threw
RECURSIVE MergeLoop(_, _, _, _)
MergeLoop(results, order, i, data) ==
    IF i > Len(order) THEN [threw |-> FALSE, data |-> data]
    ELSE LET result == results[order[i]]
         IN  IF /\ result.status = "fulfilled"
                /\ TypeOf(result.value) = "object"
                /\ InThrows(result.value)
             THEN [threw |-> TRUE, data |-> data]
             ELSE MergeLoop(results, order, i + 1,
                            data \o Contribution(result))

(***************************************************************************)
(* Request parsing.                                                        *)
(***************************************************************************)
\* index.mjs:388-389  Number(raw) || default, raw the query parameter or ""
\* when it is absent (Number(null) is 0): 0 and NaN give way to the
\* default, every other number is taken as it is
NumberOr(raw, default) ==
    CASE raw = "1" -> Num(1)
      [] raw = "2" -> Num(2)
      [] raw = "3" -> Num(3)
      [] raw = "4" -> Num(4)
      [] raw = "5" -> Num(5)
      [] raw = "1.5" -> Num(1) + 1
      [] raw = "-1" -> Num(-1)
      [] OTHER -> default

\* a query parameter that is absent (searchParams.get answers null)
Absent == "<absent>"

\* index.mjs:387  url.searchParams.get("search") || ""
StringOr(raw, default) == IF raw \in {Absent, ""} THEN default ELSE raw

(***************************************************************************)
(* State.                                                                  *)
(***************************************************************************)
VARIABLES
    now,             \* the clock (ms)
    requestCounts,   \* the limiter's Map: client address -> count
    timers,          \* pending setTimeout callbacks: [ip, due]
    firstAt,         \* per address: when the request that opened its latest
                     \* window arrived (-1: none yet)
    seen,            \* per address: requests arrived since, that one included
    throttled,       \* per address: a request of it was answered 429
    admittedAt,      \* per address whose admissions are logged: when its
                     \* requests admitted less than windowMs ago arrived
    req,             \* per slot: the request, and the count the middleware
                     \* read for it
    pc,              \* per slot: where the handler is suspended
    resp,            \* per slot: the response written
    visitedUrls,     \* per slot: crawlAndExtract's visitedUrls
    toVisitUrls,     \* per slot: crawlAndExtract's toVisitUrls
    currentUrl,      \* per slot: currentUrl of the listing loop
    bathces,         \* per slot: crawlAndExtract's bathces
    bi,              \* per slot: i of the detail loop
    bj,              \* per slot: j of the detail loop
    promises,        \* per slot: extractProductPromises, each with the
                     \* document it was called with and its state
    overtaken,       \* per slot: a promise settled before an earlier one
    allProductData,  \* per slot: crawlAndExtract's allProductData
    pageDoc,         \* the document the shared page shows
    dequeued,        \* per slot: per URL, how often shift() returned it,
                     \* how often it was visited and how often the
                     \* page.goto of it succeeded
    calls,           \* per slot: the kinds of collaborator calls issued
    faults           \* per slot: collaborator faults injected so far

limiterVars == <<now, requestCounts, timers, firstAt, seen, throttled,
                 admittedAt>>
slotVars == <<req, pc, resp>>
crawlVars == <<visitedUrls, toVisitUrls, currentUrl, bathces, bi, bj,
               promises, overtaken, allProductData, dequeued, calls, faults>>
vars == <<limiterVars, slotVars, crawlVars, pageDoc>>

NoRequest == [ip |-> "none", path |-> "none", search |-> "", fromPage |-> 0,
              toPage |-> 0, count |-> 0]
NoResponse == [status |-> 0, body |-> [kind |-> "none"]]
Blank == [kind |-> "blank"]

\* the state after construction, the log of admissions left open
Constructed ==
    /\ now = 0
    /\ requestCounts = [ip \in {} |-> 0]
    /\ timers = {}
    /\ firstAt = [ip \in IPs |-> -1]
    /\ seen = [ip \in IPs |-> 0]
    /\ throttled = [ip \in IPs |-> FALSE]
    /\ req = [r \in Reqs |-> NoRequest]
    /\ pc = [r \in Reqs |-> "idle"]
    /\ resp = [r \in Reqs |-> NoResponse]
    /\ visitedUrls = [r \in Reqs |-> {}]
    /\ toVisitUrls = [r \in Reqs |-> << >>]
    /\ currentUrl = [r \in Reqs |-> TARGET_BASE_URL]
    /\ bathces = [r \in Reqs |-> << >>]
    /\ bi = [r \in Reqs |-> 0]
    /\ bj = [r \in Reqs |-> 0]
    /\ promises = [r \in Reqs |-> << >>]
    /\ overtaken = [r \in Reqs |-> FALSE]
    /\ allProductData = [r \in Reqs |-> << >>]
    /\ pageDoc = Blank
    /\ dequeued = [r \in Reqs |-> [u \in {} |-> 0]]
    /\ calls = [r \in Reqs |-> {}]
    /\ faults = [r \in Reqs |-> 0]

\* no address has its admissions logged
Init == Constructed /\ admittedAt = [ip \in {} |-> << >>]

\* every address has its admissions logged
InitWindow == Constructed /\ admittedAt = [ip \in IPs |-> << >>]

(***************************************************************************)
(* Control flow of crawlAndExtract between two awaits.                     *)
(***************************************************************************)
\* index.mjs:230-240  the next stub of the detail loop at or after (i, j):
\* empty batches are skipped; i is past the last batch when none is left
RECURSIVE NextStub(_, _, _)
NextStub(batches, i, j) ==
    IF i > Len(batches) THEN [i |-> i, j |-> 1]
    ELSE IF j > Len(batches[i]) THEN NextStub(batches, i + 1, 1)
    ELSE [i |-> i, j |-> j]

\* a fan-out that calls extractProduct a second time for every batch
FanOutTwice(batches) ==
    LET idx == SelectSeq([k \in 1..Len(batches) |-> k],
                         LAMBDA k : Len(batches[k]) > 0)
    IN  [p \in 1..(2 * Len(idx)) |->
           [batch |-> idx[((p - 1) % Len(idx)) + 1],
            doc |-> CompositeDocument(batches[idx[((p - 1) % Len(idx)) + 1]]),
            result |-> Pending]]

\* index.mjs:268-296  one extractProduct call per non-empty batch, in batch
\* order, each promise pending
FanOut(batches) ==
    LET idx == SelectSeq([k \in 1..Len(batches) |-> k],
                         LAMBDA k : Len(batches[k]) > 0)
    IN  [p \in 1..Len(idx) |->
           [batch |-> idx[p], doc |-> CompositeDocument(batches[idx[p]]),
            result |-> Pending]]

\* a detail loop that issues the calls for the batches already fetched
\* before it goes on to the next batch
DetailFromEager(batches, i, j) ==
    LET s == NextStub(batches, i, j)
    IN  IF s.i <= Len(batches)
        THEN [pc |-> "d_goto", bi |-> s.i, bj |-> s.j,
              promises |-> FanOut(SubSeq(batches, 1, s.i - 1)),
              calls |-> {"nav"}]
        ELSE [pc |-> "settle", bi |-> s.i, bj |-> s.j,
              promises |-> FanOut(batches),
              calls |-> IF FanOut(batches) = << >> THEN {} ELSE {"extract"}]

\* what crawlAndExtract does from stub (i, j) of the detail loop on: it
\* navigates to the stub's detail page, or, past the last stub, fans out
\* and awaits Promise.allSettled
DetailFrom(batches, i, j) ==
    LET s == NextStub(batches, i, j)
    IN  IF s.i <= Len(batches)
        THEN [pc |-> "d_goto", bi |-> s.i, bj |-> s.j, promises |-> << >>,
              calls |-> {"nav"}]
        ELSE [pc |-> "settle", bi |-> s.i, bj |-> s.j,
              promises |-> FanOut(batches),
              calls |-> IF FanOut(batches) = << >> THEN {} ELSE {"extract"}]

\* index.mjs:192-230  crawlAndExtract from the head of the frontier loop on,
\* with these locals: up to the next await
LoopFrom(r, visited, queue, deq, batches, toPage, c) ==
    LET f == FrontierNext(visited, queue, deq, toPage)
        d == DetailFrom(batches, 1, 1)
    IN  /\ visitedUrls' = [visitedUrls EXCEPT ![r] = f.visited]
        /\ toVisitUrls' = [toVisitUrls EXCEPT ![r] = f.queue]
        /\ dequeued' = [dequeued EXCEPT ![r] = f.deq]
        /\ bathces' = [bathces EXCEPT ![r] = batches]
        /\ IF f.go
           THEN /\ currentUrl' = [currentUrl EXCEPT ![r] = f.url]
                /\ pc' = [pc EXCEPT ![r] = "l_goto"]
                /\ bi' = [bi EXCEPT ![r] = 0]
                /\ bj' = [bj EXCEPT ![r] = 0]
                /\ promises' = [promises EXCEPT ![r] = << >>]
                /\ calls' = [calls EXCEPT ![r] = c \cup {"nav"}]
           ELSE /\ currentUrl' = [currentUrl EXCEPT ![r] = currentUrl[r]]
                /\ pc' = [pc EXCEPT ![r] = d.pc]
                /\ bi' = [bi EXCEPT ![r] = d.bi]
                /\ bj' = [bj EXCEPT ![r] = d.bj]
                /\ promises' = [promises EXCEPT ![r] = d.promises]
                /\ calls' = [calls EXCEPT ![r] = c \cup d.calls]

\* index.mjs:236-263  crawlAndExtract from the stub after (bi, bj) on
NextDetail(r, batches, c) ==
    LET d == DetailFrom(batches, bi[r], bj[r] + 1)
    IN  /\ bathces' = [bathces EXCEPT ![r] = batches]
        /\ pc' = [pc EXCEPT ![r] = d.pc]
        /\ bi' = [bi EXCEPT ![r] = d.bi]
        /\ bj' = [bj EXCEPT ![r] = d.bj]
        /\ promises' = [promises EXCEPT ![r] = d.promises]
        /\ calls' = [calls EXCEPT ![r] = c \cup d.calls]

\* the environment injects a fault into slot r's crawl
Fault(r) ==
    /\ faults[r] < MaxFaults
    /\ faults' = [faults EXCEPT ![r] = @ + 1]

NoFault == UNCHANGED faults

(***************************************************************************)
(* The listing loop (index.mjs:199-227).                                   *)
(***************************************************************************)
\* a catch that leaves the loop
ListingCatchBreak(r) ==
    /\ Fault(r)
    /\ LoopFrom(r, visitedUrls[r], << >>, dequeued[r], bathces[r],
                req[r].toPage, calls[r])

\* index.mjs:222-227  catch: log, continue with the next frontier entry
ListingCatch(r) ==
    /\ Fault(r)
    /\ LoopFrom(r, visitedUrls[r], toVisitUrls[r], dequeued[r], bathces[r],
                req[r].toPage, calls[r])

\* index.mjs:202  await page.goto(currentUrl) settles
ListingGoto(r, ok) ==
    /\ pc[r] = "l_goto"
    /\ IF ok
       THEN /\ pageDoc' = [kind |-> "listing", url |-> currentUrl[r]]
            /\ pc' = [pc EXCEPT ![r] = "l_splash"]
            /\ dequeued' = [dequeued EXCEPT
                              ![r] = Fetched(@, currentUrl[r])]
            /\ NoFault
            /\ UNCHANGED <<visitedUrls, toVisitUrls, currentUrl, bathces, bi,
                           bj, promises, calls>>
       ELSE /\ ListingCatch(r)
            /\ UNCHANGED pageDoc
    /\ UNCHANGED <<limiterVars, req, resp, allProductData, overtaken>>

\* index.mjs:203  await awaitSplashUI(page, currentUrl) settles
ListingSplash(r, ok) ==
    /\ pc[r] = "l_splash"
    /\ IF ok
       THEN /\ pc' = [pc EXCEPT ![r] = "l_links"]
            /\ calls' = [calls EXCEPT ![r] = @ \cup {"query"}]
            /\ NoFault
            /\ UNCHANGED <<visitedUrls, toVisitUrls, currentUrl, bathces, bi,
                           bj, promises, dequeued>>
       ELSE ListingCatch(r)
    /\ UNCHANGED <<limiterVars, req, resp, allProductData, overtaken, pageDoc>>

\* index.mjs:207-212  await getPaginationLinks(page, currentUrl) settles: the
\* page query returned the hrefs `links` (ok), or it or a new URL(link) threw
ListingLinks(r, ok, links) ==
    /\ pc[r] = "l_links"
    /\ IF ok
       THEN LET hrefs == IF pageDoc.kind = "listing" THEN links ELSE << >>
                found == getPaginationLinks(hrefs, currentUrl[r])
            IN  /\ toVisitUrls' =
                     [toVisitUrls EXCEPT
                        ![r] = PushLinks(visitedUrls[r], @, found)]
                /\ pc' = [pc EXCEPT ![r] = "l_items"]
                /\ NoFault
                /\ UNCHANGED <<visitedUrls, currentUrl, bathces, bi, bj,
                               promises, dequeued, calls>>
       ELSE ListingCatch(r)
    /\ UNCHANGED <<limiterVars, req, resp, allProductData, overtaken, pageDoc>>

\* index.mjs:216-221  await getProductItems(page) settles with n items
ListingItems(r, ok, n) ==
    /\ pc[r] = "l_items"
    /\ IF ok
       THEN /\ LoopFrom(r, visitedUrls[r], toVisitUrls[r], dequeued[r],
                        bathces[r] \o SliceBatches(getProductItems(pageDoc, n)),
                        req[r].toPage, calls[r])
            /\ NoFault
       ELSE ListingCatch(r)
    /\ UNCHANGED <<limiterVars, req, resp, allProductData, overtaken, pageDoc>>

(***************************************************************************)
(* The detail loop (index.mjs:230-263).                                    *)
(***************************************************************************)
\* the stub the detail loop is at
Stub(r) == bathces[r][bi[r]][bj[r]]

\* a catch that navigates to the same detail page again
DetailCatchRetry(r) ==
    /\ Fault(r)
    /\ pc' = [pc EXCEPT ![r] = "d_goto"]
    /\ UNCHANGED <<bathces, bi, bj, promises, calls>>

\* a catch that gives up the rest of the batch
DetailCatchAbort(r) ==
    /\ Fault(r)
    /\ LET batches == [bathces[r] EXCEPT ![bi[r]][bj[r]].fetch = "failed"]
           d == DetailFrom(batches, bi[r] + 1, 1)
       IN  /\ bathces' = [bathces EXCEPT ![r] = batches]
           /\ pc' = [pc EXCEPT ![r] = d.pc]
           /\ bi' = [bi EXCEPT ![r] = d.bi]
           /\ bj' = [bj EXCEPT ![r] = d.bj]
           /\ promises' = [promises EXCEPT ![r] = d.promises]
           /\ calls' = [calls EXCEPT ![r] = calls[r] \cup d.calls]

\* index.mjs:254-261  catch: log, continue with the next stub of the batch
DetailCatch(r) ==
    /\ Fault(r)
    /\ NextDetail(r, [bathces[r] EXCEPT ![bi[r]][bj[r]].fetch = "failed"],
                  calls[r])

\* index.mjs:245-247  await page.goto(batchItem.detailLink) settles
DetailGoto(r, ok) ==
    /\ pc[r] = "d_goto"
    /\ IF ok
       THEN /\ pageDoc' = [kind |-> "detail", id |-> Stub(r).productId]
            /\ pc' = [pc EXCEPT ![r] = "d_splash"]
            /\ NoFault
            /\ UNCHANGED <<bathces, bi, bj, promises, calls>>
       ELSE /\ DetailCatch(r)
            /\ UNCHANGED pageDoc
    /\ UNCHANGED <<limiterVars, req, resp, allProductData, overtaken,
                   visitedUrls, toVisitUrls, currentUrl, dequeued>>

\* index.mjs:248  await awaitSplashUI(page, batchItem.detailLink) settles
DetailSplash(r, ok) ==
    /\ pc[r] = "d_splash"
    /\ IF ok
       THEN /\ pc' = [pc EXCEPT ![r] = "d_desc"]
            /\ calls' = [calls EXCEPT ![r] = @ \cup {"query"}]
            /\ NoFault
            /\ UNCHANGED <<bathces, bi, bj, promises>>
       ELSE DetailCatch(r)
    /\ UNCHANGED <<limiterVars, req, resp, allProductData, overtaken, pageDoc,
                   visitedUrls, toVisitUrls, currentUrl, dequeued>>

\* index.mjs:252  await getProductDescription(page) settles
DetailDesc(r, ok) ==
    /\ pc[r] = "d_desc"
    /\ IF ok
       THEN /\ NextDetail(r,
                 [bathces[r] EXCEPT
                    ![bi[r]][bj[r]].productDetailHtml =
                        getProductDescription(pageDoc),
                    ![bi[r]][bj[r]].fetch = "done"],
                 calls[r])
            /\ NoFault
       ELSE DetailCatch(r)
    /\ UNCHANGED <<limiterVars, req, resp, allProductData, overtaken, pageDoc,
                   visitedUrls, toVisitUrls, currentUrl, dequeued>>

(***************************************************************************)
(* Fan-in (index.mjs:298-316) and the handler's response.                  *)
(***************************************************************************)
\* the answers the extraction service can give to a call
AllAnswers ==
    {Rejected} \cup {Fulfilled(v) : v \in Malformed}
               \cup {Fulfilled(WellFormed(0, n)) : n \in 0..MaxRecords}
\* a rejection or a full answer
FewAnswers == {Rejected, Fulfilled(WellFormed(0, MaxRecords))}
\* a rejection, the answer null or a full answer
SomeAnswers == FewAnswers \cup {Fulfilled(JsonNull)}

\* answer a given to the call for batch k: its records are those of batch k
AnswerFor(k, a) ==
    IF a.status = "fulfilled" /\ a.value.isArray
    THEN Fulfilled(WellFormed(k, Len(a.value.products)))
    ELSE a

IsFault(result) ==
    \/ result.status = "rejected"
    \/ result.status = "fulfilled" /\ result.value \in Malformed

\* one extractProduct promise settles
Settle(r, p, result) ==
    /\ pc[r] = "settle"
    /\ p \in 1..Len(promises[r])
    /\ promises[r][p].result.status = "pending"
    /\ IF IsFault(result) THEN Fault(r) ELSE NoFault
    /\ promises' = [promises EXCEPT ![r][p].result = result]
    /\ overtaken' =
          [overtaken EXCEPT
             ![r] = @ \/ \E q \in 1..(p - 1) :
                            promises[r][q].result.status = "pending"]
    /\ allProductData' =
          [allProductData EXCEPT ![r] = DataOnSettle(@, result)]
    /\ UNCHANGED <<limiterVars, req, pc, resp, visitedUrls, toVisitUrls,
                   currentUrl, bathces, bi, bj, pageDoc, dequeued, calls>>

\* index.mjs:298  Promise.allSettled resolves once every promise has settled
AllSettled(ps) == \A p \in 1..Len(ps) : ps[p].result.status # "pending"

\* index.mjs:396-397  the handler answers 200 with the records
Ok200(data) == [status |-> 200, body |-> [kind |-> "products", data |-> data]]
\* index.mjs:405-409  the handler's catch answers 500
Error500 == [status |-> 500, body |-> [kind |-> "error"]]
\* index.mjs:399-400
Health200 == [status |-> 200, body |-> [kind |-> "health", success |-> TRUE]]
\* index.mjs:402-403
NotFound404 == [status |-> 404, body |-> [kind |-> "notfound"]]
\* index.mjs:354-361
TooMany429 == [status |-> 429, body |-> [kind |-> "toomany", success |-> FALSE]]

\* index.mjs:298-316, 390-409  the await of Promise.allSettled resumes:
\* the merge loop runs, crawlAndExtract returns or throws, the handler answers
Merge(r) ==
    /\ pc[r] = "settle"
    /\ AllSettled(promises[r])
    /\ LET results == [p \in 1..Len(promises[r]) |-> promises[r][p].result]
           m == MergeLoop(results, MergeOrder(results), 1, allProductData[r])
       IN  /\ allProductData' = [allProductData EXCEPT ![r] = m.data]
           /\ resp' = [resp EXCEPT
                         ![r] = IF m.threw THEN Error500 ELSE Ok200(m.data)]
    /\ pc' = [pc EXCEPT ![r] = "done"]
    /\ UNCHANGED <<limiterVars, req, visitedUrls, toVisitUrls, currentUrl,
                   bathces, bi, bj, promises, overtaken, pageDoc,
                   dequeued, calls, faults>>

(***************************************************************************)
(* The rate limiter (index.mjs:339-377) and the request handler            *)
(* (index.mjs:380-413).                                                    *)
(***************************************************************************)
\* index.mjs:351  requestCounts.get(ip) || 0
CountOf(counts, ip) == IF ip \in DOMAIN counts THEN counts[ip] ELSE 0

\* a quota that lets one request more through
OverQuotaOffByOne(count) == count > maxRequests

\* index.mjs:353  the request is over quota
OverQuota(count) == count >= maxRequests

\* index.mjs:365  requestCounts.set(ip, count + 1)
SetCount(counts, ip, count) ==
    [k \in DOMAIN counts \cup {ip} |-> IF k = ip THEN count + 1 ELSE counts[k]]

\* a reset scheduled by every admitted request
ScheduleResetAlways(pending, ip, count, t) ==
    pending \cup {[ip |-> ip, due |-> t + windowMs]}

\* a reset scheduled two windows ahead
ScheduleResetLate(pending, ip, count, t) ==
    IF count = 0 THEN pending \cup {[ip |-> ip, due |-> t + 2 * windowMs]}
    ELSE pending

\* index.mjs:366-371  the first request of a window schedules the reset
ScheduleReset(pending, ip, count, t) ==
    IF count = 0 THEN pending \cup {[ip |-> ip, due |-> t + windowMs]}
    ELSE pending

\* index.mjs:368  requestCounts.delete(ip)
DeleteCount(counts, ip) == [k \in DOMAIN counts \ {ip} |-> counts[k]]

\* the entries of a log that are less than windowMs old at time t
Lately(log, t) == SelectSeq(log, LAMBDA a : t - a < windowMs)

\* index.mjs:365  a request of ip is admitted at time t
Admit(logs, ip, t) ==
    IF ip \in DOMAIN logs
    THEN [logs EXCEPT ![ip] = Append(Lately(@, t), t)]
    ELSE logs

\* the locals of a handler invocation that never reaches the frontier loop
NoCrawl(r) ==
    /\ visitedUrls' = [visitedUrls EXCEPT ![r] = {}]
    /\ toVisitUrls' = [toVisitUrls EXCEPT ![r] = << >>]
    /\ currentUrl' = [currentUrl EXCEPT ![r] = TARGET_BASE_URL]
    /\ bathces' = [bathces EXCEPT ![r] = << >>]
    /\ bi' = [bi EXCEPT ![r] = 0]
    /\ bj' = [bj EXCEPT ![r] = 0]
    /\ promises' = [promises EXCEPT ![r] = << >>]
    /\ dequeued' = [dequeued EXCEPT ![r] = [u \in {} |-> 0]]
    /\ calls' = [calls EXCEPT ![r] = {}]
    /\ pc' = [pc EXCEPT ![r] = "done"]

\* a check that only catches a search that is null
EmptySearchNullOnly(search) == search = Absent

\* index.mjs:173  if (!search)
EmptySearch(search) == search = ""

\* a handler whose start URL carries the caller's search
RouteBySearch(r, path, query) ==
    IF path = "/scrape"
    THEN IF EmptySearch(query.search)
         THEN /\ NoCrawl(r)
              /\ resp' = [resp EXCEPT ![r] = Ok200(<< >>)]
         ELSE /\ LoopFrom(r, {},
                          << [TARGET_BASE_URL EXCEPT
                                !.q = @ \o << <<"_nkw", query.search>>,
                                               <<"_pgn", NumberToString(
                                                    query.fromPage)>> >>] >>,
                          [u \in {} |-> 0], << >>, query.toPage, {})
              /\ resp' = [resp EXCEPT ![r] = NoResponse]
    ELSE IF path = "/health"
    THEN /\ NoCrawl(r)
         /\ resp' = [resp EXCEPT ![r] = Health200]
    ELSE /\ NoCrawl(r)
         /\ resp' = [resp EXCEPT ![r] = NotFound404]

\* index.mjs:381-410  next(): the route of the request, up to its first
\* await that suspends
Route(r, path, query) ==
    IF path = "/scrape"
    THEN IF EmptySearch(query.search)
         THEN /\ NoCrawl(r)
              /\ resp' = [resp EXCEPT ![r] = Ok200(<< >>)]
         ELSE /\ LoopFrom(r, {},
                          << StartUrl(TARGET_BASE_URL, query.fromPage) >>,
                          [u \in {} |-> 0], << >>, query.toPage, {})
              /\ resp' = [resp EXCEPT ![r] = NoResponse]
    ELSE IF path = "/health"
    THEN /\ NoCrawl(r)
         /\ resp' = [resp EXCEPT ![r] = Health200]
    ELSE /\ NoCrawl(r)
         /\ resp' = [resp EXCEPT ![r] = NotFound404]

\* index.mjs:349-374, 380-413  a request of client ip arrives and is given
\* to slot r: the middleware, and next() when it is admitted
Arrive(r, ip, path, rawSearch, rawFrom, rawTo) ==
    LET count == CountOf(requestCounts, ip)
        search == StringOr(rawSearch, "")
        fromPage == NumberOr(rawFrom, Num(1))
        toPage == NumberOr(rawTo, fromPage)
        query == [search |-> search, fromPage |-> fromPage, toPage |-> toPage]
    IN  /\ pc[r] \in {"idle", "done"}
        /\ req' = [req EXCEPT ![r] = [ip |-> ip, path |-> path,
                                      search |-> search,
                                      fromPage |-> fromPage,
                                      toPage |-> toPage, count |-> count]]
        /\ overtaken' = [overtaken EXCEPT ![r] = FALSE]
        /\ allProductData' = [allProductData EXCEPT ![r] = << >>]
        /\ faults' = [faults EXCEPT ![r] = 0]
        /\ IF OverQuota(count)
           THEN /\ NoCrawl(r)
                /\ resp' = [resp EXCEPT ![r] = TooMany429]
                /\ UNCHANGED <<requestCounts, timers, firstAt>>
                /\ throttled' = [throttled EXCEPT ![ip] = TRUE]
                /\ UNCHANGED admittedAt
                /\ seen' = [seen EXCEPT ![ip] = Min(@ + 1, maxRequests + 2)]
           ELSE /\ requestCounts' = SetCount(requestCounts, ip, count)
                /\ timers' = ScheduleReset(timers, ip, count, now)
                /\ firstAt' = IF count = 0
                              THEN [firstAt EXCEPT ![ip] = now]
                              ELSE firstAt
                /\ seen' = IF count = 0
                           THEN [seen EXCEPT ![ip] = 1]
                           ELSE [seen EXCEPT
                                   ![ip] = Min(@ + 1, maxRequests + 2)]
                /\ UNCHANGED throttled
                /\ admittedAt' = Admit(admittedAt, ip, now)
                /\ Route(r, path, query)
        /\ UNCHANGED <<now, pageDoc>>

\* index.mjs:367-370  a reset timer that is due fires
TimerFire(t) ==
    /\ t \in timers
    /\ t.due <= now
    /\ requestCounts' = DeleteCount(requestCounts, t.ip)
    /\ timers' = timers \ {t}
    /\ UNCHANGED <<now, firstAt, seen, throttled, admittedAt, slotVars,
                   crawlVars, pageDoc>>

\* time passes: by at most TickMs, not beyond MaxTime, and not beyond the
\* moment the next timer is due (a due timer fires before later events)
Tick ==
    /\ now < MaxTime
    /\ \A t \in timers : t.due > now
    /\ LET limit == Min(now + TickMs, MaxTime)
           dues == {t.due : t \in timers}
       IN  now' = IF \E d \in dues : d < limit
                  THEN CHOOSE d \in dues : \A e \in dues : d <= e
                  ELSE limit
    /\ admittedAt' =
          [ip \in DOMAIN admittedAt |-> Lately(admittedAt[ip], now')]
    /\ UNCHANGED <<requestCounts, timers, firstAt, seen, throttled, slotVars,
                   crawlVars, pageDoc>>

(***************************************************************************)
(* The environment: what clients ask and what the site serves.             *)
(***************************************************************************)
\* listing page n of the site, as the crawler itself spells it
PageUrl(n) == StartUrl(TARGET_BASE_URL, Num(n))
\* the same page with _pgn ahead of the other parameters
PgnFirst(n) ==
    [host |-> TARGET_BASE_URL.host,
     q |-> << <<"_pgn", NumberToString(Num(n))>> >> \o TARGET_BASE_URL.q
           \o << <<"_nkw", "nike">> >>]
\* the same page with the other parameters in another order
Reordered(n) ==
    [host |-> TARGET_BASE_URL.host,
     q |-> << <<"_nkw", "nike">> >> \o TARGET_BASE_URL.q
           \o << <<"_pgn", NumberToString(Num(n))>> >>]
\* a link that leaves the site
OffSite == [host |-> "ads.example.com", q |-> << <<"_pgn", "2">> >>]
\* a link without _pgn
NoPgn == [host |-> TARGET_BASE_URL.host, q |-> TARGET_BASE_URL.q]

\* page n with _pgn twice, the second one of the next page
DoublePgn(n) ==
    [host |-> TARGET_BASE_URL.host,
     q |-> << <<"_pgn", NumberToString(Num(n))>> >> \o TARGET_BASE_URL.q
           \o << <<"_nkw", "nike">>, <<"_pgn", NumberToString(Num(n + 1))>> >>]
\* the query parameters of listing page n
PageParams(n) ==
    { <<"_ipg", "60">>, <<"_nkw", "nike">>, <<"_pgn", NumberToString(Num(n))>> }
\* page n with its parameters in every order
AnyOrder(n) ==
    { [host |-> TARGET_BASE_URL.host, q |-> << q[1], q[2], q[3] >>] :
        q \in { f \in [1..3 -> PageParams(n)] :
                  \A i, j \in 1..3 : i # j => f[i] # f[j] } }
\* the hrefs a pagination link can be, in SpecLinks
Hrefs == AnyOrder(2) \cup {NoPgn, DoublePgn(2), OffSite}
\* the hrefs a listing page's pagination can hold, in SpecLinks: up to two,
\* no two of them the same string
LinkLists ==
    { << >> } \cup { << l >> : l \in Hrefs }
              \cup { pair \in Hrefs \X Hrefs : pair[1] # pair[2] }

\* the hrefs a listing page's pagination can hold, in SpecCycle: the pages
\* link to each other and to themselves
CycleLinks ==
    { << >>,
      << PageUrl(1), PageUrl(2) >>,
      << PageUrl(2), PageUrl(1), PageUrl(2) >> }
\* the listing pages of that site
CycleUrls == { PageUrl(1), PageUrl(2) }

\* the hrefs a listing page's pagination can hold, in SpecCrawl
CrawlLinks ==
    { << >>,
      << PageUrl(1), PageUrl(2) >>,
      << PgnFirst(2), PageUrl(2) >>,
      << OffSite, PageUrl(3) >>,
      << NoPgn, Reordered(2) >> }
\* the number of items of a listing page, in SpecBatch
CrawlItems == {0, 1, itemsPerBatch + 1}

\* a site of few links and few items
FewLinks == { << >>, << PageUrl(2), PageUrl(2) >> }
FewItems == {0, 1}

Paths == {"/scrape", "/health", "/nope"}
Searches == {Absent, "", "nike"}
\* from_page and to_page as a client is meant to send them
RawPages == {""} \cup {NumberToString(Num(n)) : n \in 1..MaxPage}
\* and as a client can send them
OddPages == {"0", "-1", "1.5", "abc"}

(***************************************************************************)
(* The steps of a crawl, over what the environment may answer: oks holds   *)
(* TRUE when a navigation or page query may succeed and FALSE when it may  *)
(* fail.                                                                   *)
(***************************************************************************)
ListingStep(r, oks, linkLists, itemCounts) ==
    \/ \E ok \in oks : ListingGoto(r, ok)
    \/ \E ok \in oks : ListingSplash(r, ok)
    \/ \E ok \in oks, links \in linkLists : ListingLinks(r, ok, links)
    \/ \E ok \in oks, n \in itemCounts : ListingItems(r, ok, n)

DetailStep(r, oks) ==
    \/ \E ok \in oks : DetailGoto(r, ok)
    \/ \E ok \in oks : DetailSplash(r, ok)
    \/ \E ok \in oks : DetailDesc(r, ok)

ExtractStep(r, answers) ==
    \/ \E p \in 1..Len(promises[r]), a \in answers :
          Settle(r, p, AnswerFor(promises[r][p].batch, a))
    \/ Merge(r)

\* the first request a fresh server receives is a /scrape with a search
FirstScrape(rawFroms, rawTos) ==
    /\ requestCounts = [ip \in {} |-> 0]
    /\ pc["r1"] = "idle"
    /\ \E rawFrom \in rawFroms, rawTo \in rawTos :
          Arrive("r1", "ip1", "/scrape", "nike", rawFrom, rawTo)

(***************************************************************************)
(* Spec: the server within one rate-limit window.  One client sends        *)
(* requests at any time, two handler invocations can be in flight          *)
(* together; the site is small.                                            *)
(***************************************************************************)
Request ==
    \E r \in Reqs, path \in Paths :
        \E search \in IF path = "/scrape" THEN Searches ELSE {Absent} :
            Arrive(r, "ip1", path, search, "", "")

Next ==
    \/ Request
    \/ \E r \in Reqs : ListingStep(r, BOOLEAN, {<< >>}, FewItems)
    \/ \E r \in Reqs : DetailStep(r, BOOLEAN)
    \/ \E r \in Reqs : ExtractStep(r, SomeAnswers)

Spec == Init /\ [][Next]_vars

(***************************************************************************)
(* SpecLimiter: the rate limiter over time.  Two clients send requests     *)
(* that are answered without suspending; time passes and reset timers      *)
(* fire.                                                                   *)
(***************************************************************************)
QuickRequest ==
    \E ip \in IPs, path \in Paths :
        \E search \in IF path = "/scrape" THEN {Absent, ""} ELSE {Absent} :
            Arrive("r1", ip, path, search, "", "")

Reset == \E t \in timers : TimerFire(t)

NextLimiter ==
    \/ QuickRequest
    \/ Reset
    \/ Tick

SpecLimiter == Init /\ [][NextLimiter]_vars

(***************************************************************************)
(* SpecWindow: one client asking for /health while time passes and timers  *)
(* fire, its admissions logged.                                            *)
(***************************************************************************)
WindowRequest == Arrive("r1", "ip1", "/health", Absent, "", "")

NextWindow ==
    \/ WindowRequest
    \/ Reset
    \/ Tick

SpecWindow == InitWindow /\ [][NextWindow]_vars

(***************************************************************************)
(* SpecSearch: two crawls, one after the other, of a site that serves the  *)
(* same pages to both: every page holds one item and links to the page     *)
(* before and the page after it; nothing fails but extraction calls.       *)
(***************************************************************************)
SearchWords == {"nike", "adidas"}

\* the pagination links the site serves on the page at url
SiteLinks(url) ==
    CASE url = PageUrl(1) -> << PageUrl(2) >>
      [] url = PageUrl(2) -> << PageUrl(1), PageUrl(3) >>
      [] url = PageUrl(3) -> << PageUrl(2) >>
      [] OTHER -> << >>

SiteStep(r) ==
    \/ ListingGoto(r, TRUE)
    \/ ListingSplash(r, TRUE)
    \/ ListingLinks(r, TRUE, SiteLinks(currentUrl[r]))
    \/ ListingItems(r, TRUE, 1)

\* a /scrape with a search arrives at a fresh server, and another when the
\* first has been answered
SearchRequest ==
    \E search \in SearchWords, rawFrom \in {"", "2"}, rawTo \in RawPages :
        \/ /\ pc["r1"] = "idle"
           /\ Arrive("r1", "ip1", "/scrape", search, rawFrom, rawTo)
        \/ /\ pc["r1"] = "done"
           /\ pc["r2"] = "idle"
           /\ Arrive("r2", "ip1", "/scrape", search, rawFrom, rawTo)

NextSearch ==
    \/ SearchRequest
    \/ \E r \in Reqs : SiteStep(r)
    \/ \E r \in Reqs : DetailStep(r, {TRUE})
    \/ \E r \in Reqs : ExtractStep(r, FewAnswers)

SpecSearch == Init /\ [][NextSearch]_vars

(***************************************************************************)
(* SpecCrawl: one crawl over a site rich in pagination links.              *)
(***************************************************************************)
NextCrawl ==
    \/ FirstScrape({"", "2"}, RawPages)
    \/ ListingStep("r1", BOOLEAN, CrawlLinks, FewItems)
    \/ DetailStep("r1", BOOLEAN)
    \/ ExtractStep("r1", FewAnswers)

SpecCrawl == Init /\ [][NextCrawl]_vars

(***************************************************************************)
(* SpecBatch: one crawl over a site rich in items.                         *)
(***************************************************************************)
NextBatch ==
    \/ FirstScrape({""}, RawPages)
    \/ ListingStep("r1", BOOLEAN, FewLinks, CrawlItems)
    \/ DetailStep("r1", BOOLEAN)
    \/ ExtractStep("r1", FewAnswers)

SpecBatch == Init /\ [][NextBatch]_vars

(***************************************************************************)
(* SpecQuery: one crawl over everything a client can send as from_page and *)
(* to_page.                                                                *)
(***************************************************************************)
NextQuery ==
    \/ FirstScrape(RawPages \cup OddPages, RawPages \cup OddPages)
    \/ ListingStep("r1", BOOLEAN, FewLinks, FewItems)
    \/ DetailStep("r1", BOOLEAN)
    \/ ExtractStep("r1", SomeAnswers)

SpecQuery == Init /\ [][NextQuery]_vars

(***************************************************************************)
(* SpecLinks: one crawl of one page, over pagination links spelled in      *)
(* every way.                                                              *)
(***************************************************************************)
NextLinks ==
    \/ FirstScrape({""}, {""})
    \/ ListingStep("r1", BOOLEAN, LinkLists, FewItems)
    \/ DetailStep("r1", BOOLEAN)
    \/ ExtractStep("r1", FewAnswers)

SpecLinks == Init /\ [][NextLinks]_vars

(***************************************************************************)
(* SpecCycle: one crawl, with any budget a client can ask for, over two    *)
(* listing pages that link to each other; every navigation and page query  *)
(* of the listing loop returns or fails in finite time.                    *)
(***************************************************************************)
ListingCycle == ListingStep("r1", BOOLEAN, CycleLinks, FewItems)

NextCycle ==
    \/ FirstScrape({""}, RawPages \cup OddPages)
    \/ ListingCycle
    \/ DetailStep("r1", BOOLEAN)
    \/ ExtractStep("r1", FewAnswers)

SpecCycle == Init /\ [][NextCycle]_vars /\ WF_vars(ListingCycle)

(***************************************************************************)
(* SpecExtract: one crawl of one page of items, no navigation or query     *)
(* failing, over everything the extraction service may answer.             *)
(***************************************************************************)
NextExtract ==
    \/ FirstScrape({""}, {""})
    \/ ListingStep("r1", {TRUE}, {<< >>}, {itemsPerBatch + 1,
                                           2 * itemsPerBatch + 1})
    \/ DetailStep("r1", {TRUE})
    \/ ExtractStep("r1", AllAnswers)

SpecExtract == Init /\ [][NextExtract]_vars

(***************************************************************************)
(* Properties.                                                             *)
(***************************************************************************)
\* slot r holds a request that was admitted and ran the crawl
Crawled(r) ==
    /\ pc[r] # "idle"
    /\ req[r].path = "/scrape"
    /\ req[r].search # ""
    /\ ~OverQuota(req[r].count)

\* slot r's crawl has left the frontier loop
LoopLeft(r) == Crawled(r) /\ pc[r] \in {"d_goto", "d_splash", "d_desc",
                                        "settle", "done"}

\* the results of slot r's extraction calls, in submission order
Results(r) == [p \in 1..Len(promises[r]) |-> promises[r][p].result]

\* the records a result carries: those of a fulfilled call whose value is an
\* object with an array of products
RecordsOf(result) ==
    IF /\ result.status = "fulfilled"
       /\ result.value.json = "object"
       /\ result.value.hasProducts
       /\ result.value.isArray
    THEN result.value.products
    ELSE << >>

\* the records of results p.. in submission order
RECURSIVE InSubmissionOrder(_, _)
InSubmissionOrder(results, p) ==
    IF p > Len(results) THEN << >>
    ELSE RecordsOf(results[p]) \o InSubmissionOrder(results, p + 1)

\* a request of client ip arrives
ArrivalOf(ip) ==
    \E path \in Paths, search \in Searches :
        Arrive("r1", ip, path, search, "", "")

\* C1: of one client, the first to fifth request arriving within windowMs
\* of the request that opened the window are admitted, the sixth (and any
\* further one) within the same windowMs is answered 429, and a request
\* arriving after windowMs has passed since the window was opened is
\* admitted and leaves the client's count at 1.
C1_RateLimiterWindow ==
    [][\A ip \in IPs :
         ArrivalOf(ip) =>
           /\ firstAt[ip] = -1 => resp'["r1"].status # 429
           /\ (firstAt[ip] >= 0 /\ now - firstAt[ip] < windowMs
                 /\ seen[ip] < maxRequests)
                => resp'["r1"].status # 429
           /\ (firstAt[ip] >= 0 /\ now - firstAt[ip] < windowMs
                 /\ seen[ip] >= maxRequests)
                => resp'["r1"].status = 429
           /\ (firstAt[ip] >= 0 /\ now - firstAt[ip] > windowMs)
                => /\ resp'["r1"].status # 429
                   /\ CountOf(requestCounts', ip) = 1]_vars

\* C1's case: a client that was answered 429 in an earlier window has just
\* been admitted again, its count 1
C1_Witness ==
    \E ip \in IPs :
        /\ throttled[ip]
        /\ req["r1"].ip = ip
        /\ resp["r1"].status = 200
        /\ firstAt[ip] = now
        /\ now > windowMs
        /\ CountOf(requestCounts, ip) = 1

\* C2: a request that arrives when its client's count is at maxRequests or
\* above is answered 429 and causes no route handling, navigation, page
\* query or extraction call; and only such a request is answered 429.
C2_OverQuotaShortCircuits ==
    \A r \in Reqs :
        /\ (pc[r] # "idle" /\ req[r].count >= maxRequests)
             => /\ resp[r] = TooMany429
                /\ pc[r] = "done"
                /\ calls[r] = {}
                /\ visitedUrls[r] = {}
                /\ toVisitUrls[r] = << >>
                /\ bathces[r] = << >>
                /\ promises[r] = << >>
        /\ resp[r].status = 429 => req[r].count >= maxRequests

\* C2's case: a /scrape with a search was answered 429 while the other
\* slot's crawl is running
C2_Witness ==
    \E r \in Reqs, o \in Reqs :
        /\ resp[r].status = 429
        /\ req[r].path = "/scrape"
        /\ req[r].search = "nike"
        /\ o # r
        /\ pc[o] \notin {"idle", "done"}

\* C3: every GET /health is answered 200 { success: true }, whatever the
\* rate limiter's counters are.
C3_HealthAlways200 ==
    \A r \in Reqs : req[r].path = "/health" => resp[r] = Health200

\* C4: a crawl with toPage = N, N above 0, never holds more than N URLs in
\* its visited set, however many pagination links it finds, and it leaves
\* the frontier loop only with the pending queue empty or the visited set
\* at N or above.
C4_BudgetRespected ==
    \A r \in Reqs :
        /\ req[r].toPage > 0
             => Num(Cardinality(visitedUrls[r])) <= req[r].toPage
        /\ LoopLeft(r) => \/ toVisitUrls[r] = << >>
                          \/ Num(Cardinality(visitedUrls[r])) >= req[r].toPage

\* C5: when exactly one extraction call of a crawl was rejected, the crawl
\* returns the records of the fulfilled calls, batch after batch in
\* submission order.
C5_PartialFailureIsolation ==
    \A r \in Reqs :
        (/\ Crawled(r)
         /\ pc[r] = "done"
         /\ Cardinality({p \in 1..Len(promises[r]) :
                           promises[r][p].result.status = "rejected"}) = 1)
        => resp[r] = Ok200(InSubmissionOrder(Results(r), 1))

\* the records of data are in the order of the batches they come from, and
\* those of one batch in the order of its answer
ByBatch(data) ==
    \A i \in 1..Len(data), j \in 1..Len(data) :
        i < j => \/ data[i][1] < data[j][1]
                 \/ data[i][1] = data[j][1] /\ data[i][2] < data[j][2]

\* C6: however the extraction calls complete, the records returned are in
\* batch submission order, and allProductData stays empty until every call
\* has settled.
C6_OrderedBySubmission ==
    \A r \in Reqs :
        /\ ByBatch(allProductData[r])
        /\ pc[r] # "done" => allProductData[r] = << >>
        /\ (pc[r] = "done" /\ resp[r].status = 200)
             => resp[r].body.data = allProductData[r]

\* C6's case: a later call settled before an earlier one, and the answer
\* holds records of two batches
C6_Witness ==
    \E r \in Reqs :
        /\ pc[r] = "done"
        /\ resp[r].status = 200
        /\ overtaken[r]
        /\ \E i, j \in 1..Len(resp[r].body.data) :
              resp[r].body.data[i][1] # resp[r].body.data[j][1]

\* C7: a crawl one of whose extraction calls was fulfilled with a malformed
\* value (no products field, a products field that is no array, a value
\* that is no object, null) is answered 200, the malformed value adding no
\* record.
C7_MalformedIsEmpty ==
    \A r \in Reqs :
        (/\ Crawled(r)
         /\ pc[r] = "done"
         /\ \E p \in 1..Len(promises[r]) :
               /\ promises[r][p].result.status = "fulfilled"
               /\ promises[r][p].result.value \in Malformed)
        => /\ resp[r].status = 200
           /\ resp[r].body.data = InSubmissionOrder(Results(r), 1)

\* C8: when the extraction calls are issued, every stub is in the composite
\* document of its batch, its detail fetch was tried, and its detail
\* fragment is empty when the fetch failed and the content of its own
\* detail page when it succeeded.
C8_DetailFetchResilience ==
    \A r \in Reqs :
        (Crawled(r) /\ pc[r] \in {"settle", "done"})
        => /\ \A b \in 1..Len(bathces[r]) :
                 \E p \in 1..Len(promises[r]) : promises[r][p].batch = b
           /\ \A p \in 1..Len(promises[r]) :
                 LET batch == bathces[r][promises[r][p].batch]
                     doc == promises[r][p].doc
                 IN  /\ Len(doc) = Len(batch)
                     /\ \A i \in 1..Len(batch) :
                           /\ doc[i].productId = batch[i].productId
                           /\ batch[i].fetch \in {"failed", "done"}
                           /\ batch[i].fetch = "failed"
                                => doc[i].productDetailHtml = << >>
                           /\ batch[i].fetch = "done"
                                => doc[i].productDetailHtml
                                     = << batch[i].productId >>

\* C8's case: in one batch the detail fetch of a stub failed and that of a
\* later stub succeeded
C8_Witness ==
    \E r \in Reqs :
        /\ pc[r] \in {"settle", "done"}
        /\ \E p \in 1..Len(promises[r]) :
              \E i, j \in 1..Len(promises[r][p].doc) :
                 /\ i < j
                 /\ bathces[r][promises[r][p].batch][i].fetch = "failed"
                 /\ promises[r][p].doc[i].productDetailHtml = << >>
                 /\ promises[r][p].doc[j].productDetailHtml # << >>

\* C9: an admitted /scrape whose search is empty or missing is answered
\* 200 with [] and makes no navigation, page query or extraction call, its
\* frontier untouched.
C9_EmptySearch ==
    \A r \in Reqs :
        (/\ pc[r] # "idle"
         /\ req[r].path = "/scrape"
         /\ req[r].search = ""
         /\ ~OverQuota(req[r].count))
        => /\ resp[r] = Ok200(<< >>)
           /\ pc[r] = "done"
           /\ calls[r] = {}
           /\ visitedUrls[r] = {}
           /\ toVisitUrls[r] = << >>
           /\ bathces[r] = << >>
           /\ promises[r] = << >>

\* C9's case: a /scrape without a search was answered while the other
\* slot's crawl is running
C9_Witness ==
    \E r \in Reqs, o \in Reqs :
        /\ req[r].path = "/scrape"
        /\ req[r].search = ""
        /\ resp[r] = Ok200(<< >>)
        /\ o # r
        /\ pc[o] \notin {"idle", "done"}

\* C10 as stated: within one crawl shift() returns a URL at most once.
C10_DequeuedAtMostOnce ==
    \A r \in Reqs : \A u \in DOMAIN dequeued[r] : dequeued[r][u].shifts <= 1

\* C10 as amended: within one crawl a URL is marked visited and navigated
\* to at most once, however often it was enqueued; shift() returns it at
\* least as often, and it is in the visited set iff it was visited.
C10_VisitedAtMostOnce ==
    \A r \in Reqs : \A u \in DOMAIN dequeued[r] :
        /\ dequeued[r][u].visits <= 1
        /\ dequeued[r][u].shifts >= 1
        /\ u \in visitedUrls[r]

\* C10's case: shift() returned a URL twice, and it was visited once
C10_Witness ==
    \E r \in Reqs : \E u \in DOMAIN dequeued[r] :
        dequeued[r][u].shifts >= 2 /\ dequeued[r][u].visits = 1

\* n is a whole number
IsWhole(n) == n % Num(1) = 0

\* C11: the query of every admitted /scrape request has a whole fromPage
\* of 1 or above and a whole toPage of fromPage or above.
C11_QueryParsed ==
    \A r \in Reqs :
        (req[r].path = "/scrape" /\ ~OverQuota(req[r].count))
        => /\ IsWhole(req[r].fromPage)
           /\ req[r].fromPage >= Num(1)
           /\ IsWhole(req[r].toPage)
           /\ req[r].toPage >= req[r].fromPage

\* the URLs pending in slot r's crawl
PendingUrls(r) == { toVisitUrls[r][i] : i \in 1..Len(toVisitUrls[r]) }

\* how often pair p is in query string q
Occurs(q, p) == Cardinality({ i \in 1..Len(q) : q[i] = p })

\* u and v differ at most in the order of their query parameters
SameParams(u, v) ==
    /\ u.host = v.host
    /\ Len(u.q) = Len(v.q)
    /\ \A i \in 1..Len(u.q) : Occurs(u.q, u.q[i]) = Occurs(v.q, u.q[i])

\* u and v differ at most in where their _pgn parameter stands
SameButPgnPlace(u, v) ==
    /\ u.host = v.host
    /\ ParamsDelete(u.q, "_pgn") = ParamsDelete(v.q, "_pgn")
    /\ ParamsGet(u.q, "_pgn") = ParamsGet(v.q, "_pgn")

\* C12 as stated: a normalized link is normalized to itself, and normalized
\* links that differ only in the order of their parameters are the same
\* string.
C12_AnyOrderCanonical ==
    \A r \in Reqs : \A u \in PendingUrls(r), v \in PendingUrls(r) :
        /\ NormalizeLink(u) = u
        /\ SameParams(u, v) => u = v

\* C12 as amended: a normalized link is normalized to itself, and
\* normalized links that differ only in where _pgn stands among their
\* parameters are the same string.
C12_PgnPlaceCanonical ==
    \A r \in Reqs : \A u \in PendingUrls(r), v \in PendingUrls(r) :
        /\ NormalizeLink(u) = u
        /\ SameButPgnPlace(u, v) => u = v

\* C12's case: a page's two pagination links, different strings, were
\* normalized to one string
C12_Witness ==
    \E r \in Reqs :
        /\ pc[r] = "l_items"
        /\ Len(toVisitUrls[r]) = 2
        /\ toVisitUrls[r][1] = toVisitUrls[r][2]

\* slot r's crawl is suspended in the try block of the listing loop
InListing(r) == pc[r] \in {"l_goto", "l_splash", "l_links", "l_items"}

\* the stubs slot r's crawl has harvested, as <<batch, place>>
Harvested(r) ==
    { s \in (1..Len(bathces[r])) \X (1..itemsPerBatch) :
        s[2] <= Len(bathces[r][s[1]]) }

\* the pending URLs of slot r that are not visited, in queue order
Unvisited(r) ==
    SelectSeq(toVisitUrls[r], LAMBDA u : u \notin visitedUrls[r])

\* C13: when a navigation or page query of a listing URL fails, the request
\* is not answered, the stubs harvested so far are kept, and while the
\* budget lasts the loop goes on to the next pending URL that is not
\* visited; and when the extraction calls are issued, every harvested stub
\* had its detail fetch and is in the document of exactly one call.
C13_ListingFailureIsolation ==
    /\ [][\A r \in Reqs :
            (InListing(r) /\ faults'[r] = faults[r] + 1)
            => /\ bathces'[r] = bathces[r]
               /\ resp'[r] = NoResponse
               /\ pc'[r] # "done"
               /\ visitedUrls[r] \subseteq visitedUrls'[r]
               /\ (/\ Unvisited(r) # << >>
                   /\ Num(Cardinality(visitedUrls[r])) < req[r].toPage)
                  => /\ pc'[r] = "l_goto"
                     /\ currentUrl'[r] = Head(Unvisited(r))]_vars
    /\ [](\A r \in Reqs :
            (Crawled(r) /\ pc[r] \in {"settle", "done"})
            => \A s \in Harvested(r) :
                  /\ bathces[r][s[1]][s[2]].fetch # "none"
                  /\ Cardinality({ p \in 1..Len(promises[r]) :
                        /\ promises[r][p].batch = s[1]
                        /\ promises[r][p].doc[s[2]].productId
                             = bathces[r][s[1]][s[2]].productId }) = 1)

\* C13's case: the first listing page failed after its pagination links
\* were pushed, the second page was visited and its stub fetched and
\* dispatched
C13_Witness ==
    \E r \in Reqs :
        /\ pc[r] = "settle"
        /\ faults[r] = 1
        /\ visitedUrls[r] = {PageUrl(1), PageUrl(2)}
        /\ Len(promises[r]) = 1
        /\ promises[r][1].result = Pending
        /\ \A s \in Harvested(r) :
              /\ bathces[r][s[1]][s[2]].fetch = "done"
              /\ bathces[r][s[1]][s[2]].productId[1] = PageUrl(2)

\* one of slot r's extraction calls was fulfilled with null
NullAnswered(r) ==
    \E p \in 1..Len(promises[r]) :
        /\ promises[r][p].result.status = "fulfilled"
        /\ promises[r][p].result.value.json = "null"

\* C14: whatever navigations and page queries of listing and detail pages
\* failed and whatever extraction calls were rejected, an admitted /scrape
\* with a search is answered 200 with the records of the fulfilled calls;
\* it is answered 500 only when an exception left crawlAndExtract, which
\* is when the merge read a null answer.
C14_PropagationPolicy ==
    \A r \in Reqs :
        (Crawled(r) /\ pc[r] = "done")
        => /\ resp[r].status \in {200, 500}
           /\ ~NullAnswered(r)
                => resp[r] = Ok200(InSubmissionOrder(Results(r), 1))
           /\ resp[r].status = 500 => NullAnswered(r)

\* C14's case: a detail fetch failed and an extraction call was rejected,
\* and the request was answered 200 with the records of another call
C14_Witness ==
    \E r \in Reqs :
        /\ pc[r] = "done"
        /\ resp[r].status = 200
        /\ resp[r].body.data # << >>
        /\ \E s \in Harvested(r) : bathces[r][s[1]][s[2]].fetch = "failed"
        /\ \E p \in 1..Len(promises[r]) :
              promises[r][p].result.status = "rejected"

\* C15: at most one request at a time is waiting for a page.goto on the
\* shared page.
C15_OneNavigationInFlight ==
    Cardinality({ r \in Reqs : pc[r] \in {"l_goto", "d_goto"} }) <= 1

\* C16 as stated: the pending queue of a crawl holds no URL twice and no
\* URL that is in the visited set.
C16_NoDuplicateNoVisited ==
    \A r \in Reqs :
        /\ \A i, j \in 1..Len(toVisitUrls[r]) :
              i # j => toVisitUrls[r][i] # toVisitUrls[r][j]
        /\ \A i \in 1..Len(toVisitUrls[r]) :
              toVisitUrls[r][i] \notin visitedUrls[r]

\* what a step appends to slot r's pending queue
Pushed(r) ==
    SubSeq(toVisitUrls'[r], Len(toVisitUrls[r]) + 1, Len(toVisitUrls'[r]))

\* C16 as amended: when the pagination links of a page are enqueued, the
\* queue keeps what it held and a link is appended iff it is not in the
\* visited set, whether or not it is pending already.
C16_EnqueueIffUnvisited ==
    [][\A r \in Reqs : \A links \in CrawlLinks :
         ListingLinks(r, TRUE, links) =>
           LET found == getPaginationLinks(links, currentUrl[r])
           IN  /\ Len(toVisitUrls'[r]) >= Len(toVisitUrls[r])
               /\ SubSeq(toVisitUrls'[r], 1, Len(toVisitUrls[r]))
                    = toVisitUrls[r]
               /\ \A k \in 1..Len(found) :
                     found[k] \notin visitedUrls[r]
                       <=> \E i \in 1..Len(Pushed(r)) : Pushed(r)[i] = found[k]
               /\ \A i \in 1..Len(Pushed(r)) :
                     \E k \in 1..Len(found) : found[k] = Pushed(r)[i]]_vars

\* C16's case: the links of a page were enqueued, and the queue holds one
\* URL twice
C16_Witness ==
    \E r \in Reqs :
        /\ pc[r] = "l_items"
        /\ \E i, j \in 1..Len(toVisitUrls[r]) :
              i # j /\ toVisitUrls[r][i] = toVisitUrls[r][j]

\* C17: while a crawl runs no URL leaves its visited set, a URL enters the
\* set only as the URL the crawl navigates to next, and every listing
\* navigation the crawl starts is to a URL that enters the set with it (so
\* to none that was in the set before).
C17_VisitedOnce ==
    [][\A r \in Reqs :
         pc[r] \notin {"idle", "done"}
         => /\ visitedUrls[r] \subseteq visitedUrls'[r]
            /\ \A u \in visitedUrls'[r] \ visitedUrls[r] :
                  pc'[r] = "l_goto" /\ currentUrl'[r] = u
            /\ (dequeued'[r] # dequeued[r] /\ pc'[r] = "l_goto")
                 => currentUrl'[r] \in visitedUrls'[r] \ visitedUrls[r]]_vars

\* C17's case: a URL that is in the visited set was dequeued again, and
\* the set holds it as before
C17_Witness ==
    \E r \in Reqs : \E u \in visitedUrls[r] :
        /\ pc[r] \notin {"idle", "done"}
        /\ Cardinality(visitedUrls[r]) >= 2
        /\ u \in DOMAIN dequeued[r]
        /\ dequeued[r][u].shifts > dequeued[r][u].visits

\* the listing pages slot r's crawl has fetched
FetchedPages(r) ==
    { u \in DOMAIN dequeued[r] : dequeued[r][u].fetched > 0 }

\* C18: a crawl that left the frontier loop with a URL pending that is not
\* visited (so on its budget) has fetched toPage listing pages or more.
C18_BudgetCountsFetched ==
    \A r \in Reqs :
        (LoopLeft(r) /\ Unvisited(r) # << >>)
        => Num(Cardinality(FetchedPages(r))) >= req[r].toPage

\* C19: every listing navigation a crawl starts is to the first pending URL
\* that is not visited (the one discovered first), and a crawl with toPage
\* above 0 that has left the frontier loop has visited exactly toPage
\* URLs, or fewer when no unvisited URL was left.
C19_BreadthFirst ==
    /\ [][\A r \in Reqs :
            (/\ pc[r] \notin {"idle", "done"}
             /\ dequeued'[r] # dequeued[r]
             /\ pc'[r] = "l_goto")
            => /\ Unvisited(r) # << >>
               /\ currentUrl'[r] = Head(Unvisited(r))]_vars
    /\ [](\A r \in Reqs :
            (LoopLeft(r) /\ req[r].toPage > 0)
            => \/ Num(Cardinality(visitedUrls[r])) = req[r].toPage
               \/ /\ Num(Cardinality(visitedUrls[r])) < req[r].toPage
                  /\ Unvisited(r) = << >>)

\* C20: every URL in the pending queue or the visited set of a crawl has
\* the hostname of the start URL, and so has the URL the crawl is at, the
\* page whose pagination links it enqueues.
C20_SameHost ==
    \A r \in Reqs :
        /\ \A u \in PendingUrls(r) \cup visitedUrls[r] :
              u.host = TARGET_BASE_URL.host
        /\ InListing(r) => currentUrl[r].host = TARGET_BASE_URL.host

\* C20's case: the pagination of the start page held a link to another
\* host and a link to page 3, and only page 3 was enqueued
C20_Witness ==
    \E r \in Reqs :
        /\ pc[r] = "l_items"
        /\ visitedUrls[r] = {PageUrl(1)}
        /\ toVisitUrls[r] = << PageUrl(3) >>

\* the awaits left in the listing iteration slot r is suspended in
AwaitsLeft(r) ==
    CASE pc[r] = "l_goto" -> 3
      [] pc[r] = "l_splash" -> 2
      [] pc[r] = "l_links" -> 1
      [] OTHER -> 0

\* what is left of slot r's frontier loop on the site of SpecCycle: the
\* pages not visited, and the awaits of the iteration
Rank(r) == 4 * Cardinality(CycleUrls \ visitedUrls[r]) + AwaitsLeft(r)

RECURSIVE Flat(_)
Flat(bs) == IF bs = << >> THEN << >> ELSE Head(bs) \o Flat(Tail(bs))

\* C22: every batch holds between 1 and itemsPerBatch stubs, and when the
\* items of a listing page are harvested the batches, one after the other,
\* are the stubs they held before followed by the harvested stubs in
\* document order (so every stub is in one batch, in discovery order).
C22_BatchPartition ==
    /\ [](\A r \in Reqs : \A b \in 1..Len(bathces[r]) :
            /\ Len(bathces[r][b]) >= 1
            /\ Len(bathces[r][b]) <= itemsPerBatch)
    /\ [][\A r \in Reqs : \A n \in CrawlItems :
            ListingItems(r, TRUE, n)
            => Flat(bathces'[r])
                 = Flat(bathces[r]) \o getProductItems(pageDoc, n)]_vars

\* C22's case: a page of itemsPerBatch + 1 items and a page of one item
\* were harvested into a batch of itemsPerBatch and two batches of one
C22_Witness ==
    \E r \in Reqs :
        /\ Len(bathces[r]) = 3
        /\ Len(bathces[r][1]) = itemsPerBatch
        /\ Len(bathces[r][2]) = 1
        /\ bathces[r][3][1].productId[1] # bathces[r][2][1].productId[1]

\* n stubs need this many batches
BatchesFor(n) == (n + itemsPerBatch - 1) \div itemsPerBatch

\* C23 as stated: once the frontier loop is left, every batch but the last
\* holds itemsPerBatch stubs, and there are as many batches as all the
\* stubs together need.
C23_OneSequence ==
    \A r \in Reqs :
        LoopLeft(r)
        => /\ \A b \in 1..(Len(bathces[r]) - 1) :
                 Len(bathces[r][b]) = itemsPerBatch
           /\ Len(bathces[r]) = BatchesFor(Len(Flat(bathces[r])))

\* C23 as amended: the stubs of each listing page are partitioned on their
\* own: a harvest of n stubs keeps the batches there are and adds as many
\* batches as n stubs need, each but the last of them of itemsPerBatch
\* stubs; and no batch holds stubs of two pages.
C23_PerPage ==
    /\ [][\A r \in Reqs : \A n \in CrawlItems :
            ListingItems(r, TRUE, n)
            => LET old == Len(bathces[r])
                   new == Len(bathces'[r])
               IN  /\ new = old + BatchesFor(n)
                   /\ SubSeq(bathces'[r], 1, old) = bathces[r]
                   /\ \A b \in (old + 1)..(new - 1) :
                         Len(bathces'[r][b]) = itemsPerBatch]_vars
    /\ [](\A r \in Reqs : \A b \in 1..Len(bathces[r]) :
            \A i \in 1..Len(bathces[r][b]) :
               bathces[r][b][i].productId[1] = bathces[r][b][1].productId[1])

\* C23's case: two pages of one item each were harvested into two batches
C23_Witness ==
    \E r \in Reqs :
        /\ LoopLeft(r)
        /\ Len(bathces[r]) = 2
        /\ Len(bathces[r][1]) = 1
        /\ Len(bathces[r][2]) = 1

\* slot r's crawl is in the detail loop
InDetail(r) == pc[r] \in {"d_goto", "d_splash", "d_desc"}

\* slot r's crawl has issued its extraction calls
Dispatched(r) == Crawled(r) /\ pc[r] \in {"settle", "done"}

\* the stubs of slot r, in batch order
Stubs(r) == Flat(bathces[r])

\* C24: the stages of a crawl follow each other.  While a detail page is
\* fetched the frontier loop's condition is false and no extraction call
\* exists; a crawl that left the frontier loop never enters it again nor
\* touches the frontier; when the extraction calls exist every stub's
\* detail fetch has finished; and from then on the batches stay as they are
\* and the crawl navigates no more.
C24_StageOrdering ==
    /\ [](\A r \in Reqs :
            InDetail(r)
            => /\ ~LoopGuard(visitedUrls[r], toVisitUrls[r], req[r].toPage)
               /\ promises[r] = << >>)
    /\ [](\A r \in Reqs :
            Dispatched(r)
            => \A i \in 1..Len(Stubs(r)) :
                  Stubs(r)[i].fetch \in {"failed", "done"})
    /\ [][\A r \in Reqs :
            LoopLeft(r)
            => /\ ~InListing(r)'
               /\ visitedUrls'[r] = visitedUrls[r]
               /\ toVisitUrls'[r] = toVisitUrls[r]]_vars
    /\ [][\A r \in Reqs :
            Dispatched(r)
            => /\ bathces'[r] = bathces[r]
               /\ ~InListing(r)' /\ ~InDetail(r)'
               /\ Len(promises'[r]) = Len(promises[r])]_vars

\* C24's case: a crawl of two pages fetched the details of two batches and
\* then issued two extraction calls, both of which settled
C24_Witness ==
    \E r \in Reqs :
        /\ Dispatched(r)
        /\ Cardinality(visitedUrls[r]) >= 2
        /\ Len(promises[r]) = 2
        /\ AllSettled(promises[r])
        /\ \E i \in 1..Len(Stubs(r)) : Stubs(r)[i].fetch = "done"

\* the extraction calls of slot r made for batch b
CallsFor(r, b) == { p \in 1..Len(promises[r]) : promises[r][p].batch = b }

\* the batches of slot r that hold a stub
NonEmpty(r) == { b \in 1..Len(bathces[r]) : Len(bathces[r][b]) > 0 }

\* C25: once a crawl has dispatched, every batch that holds a stub has
\* exactly one extraction call and there are as many calls as such batches;
\* before, there is none; and a call that has settled, rejected and
\* malformed ones included, stays as it settled and no call is added.
C25_ExactlyOnceDispatch ==
    /\ [](\A r \in Reqs :
            /\ Dispatched(r)
               => /\ \A b \in NonEmpty(r) : Cardinality(CallsFor(r, b)) = 1
                  /\ Len(promises[r]) = Cardinality(NonEmpty(r))
            /\ ~Dispatched(r) => promises[r] = << >>)
    /\ [][\A r \in Reqs :
            Dispatched(r)
            => /\ Len(promises'[r]) = Len(promises[r])
               /\ \A p \in 1..Len(promises[r]) :
                     /\ promises'[r][p].batch = promises[r][p].batch
                     /\ promises[r][p].result.status # "pending"
                          => promises'[r][p] = promises[r][p]]_vars

\* C25's case: of three calls one was rejected, one answered malformed, and
\* the crawl has answered
C25_Witness ==
    \E r \in Reqs :
        /\ Dispatched(r)
        /\ pc[r] = "done"
        /\ Len(promises[r]) = 3
        /\ \E p, q \in 1..3 :
              /\ promises[r][p].result.status = "rejected"
              /\ promises[r][q].result.status = "fulfilled"
              /\ promises[r][q].result.value \in Malformed

\* the place in discovery order of the stub slot r's detail loop is at
Pos(r) == Len(Flat(SubSeq(bathces[r], 1, bi[r] - 1))) + bj[r]

\* slot r's detail fetch of the stub at place i has succeeded or failed
Finished(r, i) == Stubs(r)[i].fetch \in {"failed", "done"}

\* C26: the detail loop is at one stub at a time: the stubs before it in
\* discovery order have all succeeded or failed and neither it nor any stub
\* after it has been fetched.  The loop starts at the first stub; a step of
\* the loop either goes on with the fetch of the same stub, without
\* navigating again, or finishes that fetch, and a navigation that follows
\* is for the next stub in discovery order; a failure always finishes the
\* fetch of the stub it happens in.
C26_DetailSequential ==
    /\ [](\A r \in Reqs :
            InDetail(r)
            => /\ Pos(r) \in 1..Len(Stubs(r))
               /\ \A i \in 1..Len(Stubs(r)) : Finished(r, i) <=> i < Pos(r))
    /\ [][\A r \in Reqs :
            (Crawled(r)' /\ ~InDetail(r) /\ InDetail(r)')
            => pc'[r] = "d_goto" /\ Pos(r)' = 1]_vars
    /\ [][\A r \in Reqs :
            (InDetail(r) /\ pc'[r] # pc[r])
            => \/ /\ Pos(r)' = Pos(r)
                  /\ <<pc[r], pc'[r]>> \in {<<"d_goto", "d_splash">>,
                                            <<"d_splash", "d_desc">>}
               \/ /\ Stubs(r)'[Pos(r)].fetch \in {"failed", "done"}
                  /\ \/ pc'[r] = "d_goto" /\ Pos(r)' = Pos(r) + 1
                     \/ pc'[r] = "settle" /\ Pos(r) = Len(Stubs(r))]_vars
    /\ [][\A r \in Reqs :
            (InDetail(r) /\ pc'[r] = pc[r] /\ Stubs(r)' # Stubs(r))
            => /\ pc[r] = "d_goto"
               /\ Stubs(r)'[Pos(r)].fetch \in {"failed", "done"}
               /\ Pos(r)' = Pos(r) + 1]_vars
    /\ [][\A r \in Reqs :
            (InDetail(r) /\ faults'[r] # faults[r])
            => Stubs(r)'[Pos(r)].fetch = "failed"]_vars

\* C26's case: the fetch of the first stub failed, that of the second
\* succeeded, and the loop is past the navigation of a stub of a later batch
C26_Witness ==
    \E r \in Reqs :
        /\ pc[r] = "d_splash"
        /\ bi[r] = 2
        /\ Stubs(r)[1].fetch = "failed"
        /\ Stubs(r)[2].fetch = "done"

\* the reset timers pending for address ip
TimersOf(ip) == { t \in timers : t.ip = ip }

\* C27: every stored count is between 1 and maxRequests; an address has a
\* count exactly when one reset timer is pending for it, and none
\* otherwise; an arrival either is answered 429, the count being at
\* maxRequests and staying there, or is admitted and raises the count by
\* one in the same step; and a count falls only by its timer firing, which
\* removes it.  So the count is the number of requests admitted since the
\* last reset, and it never exceeds maxRequests.
C27_LimiterInvariant ==
    /\ [](\A ip \in DOMAIN requestCounts :
            requestCounts[ip] \in 1..maxRequests)
    /\ [](\A ip \in IPs :
            Cardinality(TimersOf(ip))
               = IF ip \in DOMAIN requestCounts THEN 1 ELSE 0)
    /\ [][\A ip \in IPs :
            ArrivalOf(ip)
            => IF resp'["r1"].status = 429
               THEN /\ CountOf(requestCounts, ip) = maxRequests
                    /\ requestCounts' = requestCounts
                    /\ timers' = timers
               ELSE /\ CountOf(requestCounts', ip)
                          = CountOf(requestCounts, ip) + 1
                    /\ \A other \in IPs \ {ip} :
                          CountOf(requestCounts', other)
                             = CountOf(requestCounts, other)]_vars
    /\ [][\A ip \in IPs :
            CountOf(requestCounts', ip) < CountOf(requestCounts, ip)
            => /\ ip \notin DOMAIN requestCounts'
               /\ \E t \in TimersOf(ip) : t.due <= now /\ timers' = timers \ {t}
               /\ resp' = resp]_vars

\* C27's case: after a reset an address has used up its quota again while
\* another address holds no count
C27_Witness ==
    \E ip \in IPs, other \in IPs :
        /\ CountOf(requestCounts, ip) = maxRequests
        /\ firstAt[ip] >= windowMs
        /\ throttled[ip]
        /\ firstAt[other] >= 0
        /\ other \notin DOMAIN requestCounts

\* C28: at no moment has an address had more than maxRequests requests
\* admitted in the windowMs that end at that moment.  (An interval of
\* length windowMs that holds more admissions than that holds them up to
\* the moment of its last admission.)
C28_PerMinuteBound ==
    \A ip \in DOMAIN admittedAt :
        Len(Lately(admittedAt[ip], now)) <= maxRequests

\* the document slot r's crawl last navigated to
OwnPage(r) ==
    IF InListing(r)
    THEN [kind |-> "listing", url |-> currentUrl[r]]
    ELSE [kind |-> "detail", id |-> Stub(r).productId]

\* C29: whenever a crawl is about to evaluate a query for pagination
\* links, item stubs or detail content, the shared page shows the document
\* that this crawl last navigated to.
C29_QueryOnOwnPage ==
    \A r \in Reqs :
        pc[r] \in {"l_links", "l_items", "d_desc"} => pageDoc = OwnPage(r)

\* the listing pages slot r's crawl harvested a stub from, in the order of
\* the harvest: on a site of one item a page, the URLs visited, in order
Visits(r) == [i \in 1..Len(Stubs(r)) |-> Stubs(r)[i].productId[1]]

\* C30: two crawls of the same site with equal fromPage start at the same
\* URL, and with equal toPage too they visit the same URLs in the same
\* order, dequeue every URL as often and end with the same frontier,
\* whatever their search values are.
C30_SearchIndependence ==
    \A r, s \in Reqs :
        (LoopLeft(r) /\ LoopLeft(s) /\ req[r].fromPage = req[s].fromPage)
        => /\ Visits(r) # << >>
           /\ Visits(r)[1] = Visits(s)[1]
           /\ req[r].toPage = req[s].toPage
                => /\ Visits(r) = Visits(s)
                   /\ visitedUrls[r] = visitedUrls[s]
                   /\ toVisitUrls[r] = toVisitUrls[s]
                   /\ dequeued[r] = dequeued[s]

\* C30's case: two crawls with different search values and the same pages
\* asked for have both visited three pages
C30_Witness ==
    /\ LoopLeft("r1") /\ LoopLeft("r2")
    /\ req["r1"].search # req["r2"].search
    /\ req["r1"].fromPage = req["r2"].fromPage
    /\ req["r1"].toPage = req["r2"].toPage
    /\ Len(Visits("r2")) = 3

====
